---- MODULE Spec2Model ----
(***************************************************************************)
(* The early console of the SafaOS kernel (src/src/kernel.c): the VGA      *)
(* text buffer, the cursor, the three write entry points, the colour       *)
(* packing and the fixed-width hexadecimal encoder.                        *)
(*                                                                         *)
(* Characters are their ASCII codes, a C string is a function on           *)
(* 0..n whose first zero element is the terminator, a cell of the text     *)
(* buffer is its 16-bit value.  A uint32_t is kept as two 16-bit halves    *)
(* [hi, lo] so that the whole 32-bit range is covered.                     *)
(***************************************************************************)
EXTENDS Integers, Sequences, FiniteSets, TLC

VARIABLES
    terminal_buffer,  \* memory from 0xB8000 on, see Cell
    terminal_row,     \* size_t terminal_row
    terminal_col,     \* size_t terminal_col
    lastOp,           \* the function that ran last ("boot" before any)
    lastStr,          \* the string the last terminalPut was given
    color,            \* the attribute byte the last terminalPut was given
    stores,           \* the stores of the last call, in program order
    hexNum,           \* write_hex: the argument
    hexStr,           \* write_hex: the local char str[11]
    fg, bg,           \* vga_entry_color: the arguments
    entryColor,       \* vga_entry_color: the value returned
    newlines,         \* history: newlines written since boot
    tail,             \* history: characters written since the last newline
    nOps              \* history: calls made since boot

vars == <<terminal_buffer, terminal_row, terminal_col, lastOp, lastStr, color,
          stores, hexNum, hexStr, fg, bg, entryColor, newlines, tail, nOps>>

-----------------------------------------------------------------------------
(* Bounds of the model *)

\* calls of the console made after boot
MaxOps == 3
\* cells of memory modelled past the end of the 80x25 grid
ExtraCells == 240

-----------------------------------------------------------------------------
(* Program constants *)

VGA_COLOR_BLACK == 0
VGA_COLOR_RED == 4
VGA_COLOR_YELLOW == 14
VGA_COLOR_WHITE == 15

VGA_WIDTH == 80
VGA_HEIGHT == 25

NUL == 0
NEWLINE == 10
SPACE == 32

\* a variant with lowercase digits: "0123456789abcdef"
hexDigits_lower ==
    [d \in 0..16 |-> IF d < 10 THEN 48 + d ELSE IF d < 16 THEN 87 + d ELSE NUL]

\* char hexDigits[] = "0123456789ABCDEF" (element 16 is the terminator)
hexDigits ==
    [d \in 0..16 |-> IF d < 10 THEN 48 + d ELSE IF d < 16 THEN 55 + d ELSE NUL]

-----------------------------------------------------------------------------
(* C arithmetic *)

RECURSIVE BitOr(_, _)
\* a | b on non-negative integers
BitOr(a, b) ==
    IF a = 0 THEN b
    ELSE IF b = 0 THEN a
    ELSE (IF a % 2 = 1 \/ b % 2 = 1 THEN 1 ELSE 0) + 2 * BitOr(a \div 2, b \div 2)

RECURSIVE Pow2(_)
Pow2(n) == IF n = 0 THEN 1 ELSE 2 * Pow2(n - 1)

\* a << n
Shl(a, n) == a * Pow2(n)

\* a uint32_t as its two 16-bit halves
U32(h, l) == [hi |-> h, lo |-> l]
U32IsZero(num) == num.hi = 0 /\ num.lo = 0
\* num % 16
U32Mod16(num) == num.lo % 16
\* num / 16
U32Div16(num) == U32(num.hi \div 16, (num.hi % 16) * 4096 + num.lo \div 16)

-----------------------------------------------------------------------------
(* VGA *)

\* a variant with the two nibbles exchanged
vga_entry_color_swapped(f, b) == BitOr(b, Shl(f, 4)) % 256

\* uint8_t vga_entry_color(VGA_COLOR fg, VGA_COLOR bg) { return fg | bg << 4; }
vga_entry_color(f, b) == BitOr(f, Shl(b, 4)) % 256

\* uint16_t vga_entry(unsigned char uc, uint8_t color)
vga_entry(uc, c) == BitOr(uc % 256, Shl(c, 8)) % 65536

-----------------------------------------------------------------------------
(* decToHexStr *)

RECURSIVE DigitLoop(_, _, _)
\* while (num > 0 && i >= 0) { str[i--] = hexDigits[num % 16]; num /= 16; }
DigitLoop(num, i, str) ==
    IF ~U32IsZero(num) /\ i >= 0
    THEN DigitLoop(U32Div16(num), i - 1,
                   [str EXCEPT ![i] = hexDigits[U32Mod16(num)]])
    ELSE [num |-> num, i |-> i, str |-> str]

RECURSIVE PadLoop(_, _)
\* while (i >= 0) { str[i--] = '0'; }
PadLoop(i, str) ==
    IF i >= 0 THEN PadLoop(i - 1, [str EXCEPT ![i] = 48]) ELSE str

\* a variant that keeps the digits it computed at positions 0 and 1
decToHexStr_noPrefix(num, str) ==
    LET s0 == [str EXCEPT ![8] = NUL]
        s1 == IF U32IsZero(num) THEN [s0 EXCEPT ![7] = 48] ELSE s0
        i1 == IF U32IsZero(num) THEN 6 ELSE 7
        d  == DigitLoop(num, i1, s1)
    IN  PadLoop(d.i, d.str)

\* a variant with room for one more character: i starts at 8, terminator at 9
decToHexStr_term9(num, str) ==
    LET s0 == [str EXCEPT ![9] = NUL]
        s1 == IF U32IsZero(num) THEN [s0 EXCEPT ![8] = 48] ELSE s0
        i1 == IF U32IsZero(num) THEN 7 ELSE 8
        d  == DigitLoop(num, i1, s1)
        s2 == PadLoop(d.i, d.str)
    IN  [s2 EXCEPT ![0] = 48, ![1] = 120]

\* void decToHexStr(uint32_t num, char str[11]): the array as it is on return
decToHexStr(num, str) ==
    LET s0 == [str EXCEPT ![8] = NUL]
        s1 == IF U32IsZero(num) THEN [s0 EXCEPT ![7] = 48] ELSE s0
        i1 == IF U32IsZero(num) THEN 6 ELSE 7
        d  == DigitLoop(num, i1, s1)
        s2 == PadLoop(d.i, d.str)
    IN  [s2 EXCEPT ![0] = 48, ![1] = 120]

-----------------------------------------------------------------------------
(* TERMINAL *)

\* cells of the 80x25 grid, and cells of memory the model keeps
GridCells == VGA_WIDTH * VGA_HEIGHT
MemCells == GridCells + ExtraCells

RECURSIVE StrlenLoop(_, _)
\* while (str[len]) len++;
StrlenLoop(str, len) == IF str[len] # NUL THEN StrlenLoop(str, len + 1) ELSE len

\* size_t strlen(const char* str)
strlen(str) == StrlenLoop(str, 0)

\* one store through terminal_buffer, with the row and column it was made for
Store(index, value, row, col) ==
    [index |-> index, value |-> value, row |-> row, col |-> col]

\* what a call works on: the cursor, the cells it has stored so far (index ->
\* value, the latest store to an index) and its stores in program order
Console ==
    [row |-> terminal_row, col |-> terminal_col, cells |-> <<>>,
     stores |-> <<>>, str |-> lastStr, color |-> color]

\* terminal_buffer[index] = value, made for the cell at (row, col)
StoreCell(st, index, value, row, col) ==
    [st EXCEPT !.cells = (index :> value) @@ @,
               !.stores = Append(@, Store(index, value, row, col))]

\* The memory terminal_buffer points to is linear: cell idx is the uint16_t at
\* 0xB8000 + 2*idx.  It is kept in lines of VGA_WIDTH cells, cell idx at
\* offset idx % VGA_WIDTH of line idx / VGA_WIDTH, so that a store rebuilds
\* one line and not the whole memory.
Lines == 0..((MemCells - 1) \div VGA_WIDTH)
Offsets(line) ==
    0..(IF (line + 1) * VGA_WIDTH <= MemCells THEN VGA_WIDTH - 1
        ELSE MemCells - 1 - line * VGA_WIDTH)
Filled(value) == [line \in Lines |-> [off \in Offsets(line) |-> value]]
Cell(buf, idx) == buf[idx \div VGA_WIDTH][idx % VGA_WIDTH]

\* the memory once the cells of a call are stored in it
Overlay(buf, cells, stored, lines) ==
    [line \in DOMAIN buf |->
        IF line \in lines
        THEN [off \in DOMAIN buf[line] |->
                 IF line * VGA_WIDTH + off \in stored
                 THEN cells[line * VGA_WIDTH + off]
                 ELSE buf[line][off]]
        ELSE buf[line]]
Memory(buf, cells) ==
    Overlay(buf, cells, DOMAIN cells, {idx \div VGA_WIDTH : idx \in DOMAIN cells})

\* const size_t index = y * VGA_WIDTH + x;
\* terminal_buffer[index] = vga_entry(' ', vga_entry_color(WHITE, BLACK));
InitCell(st, y, x) ==
    StoreCell(st, y * VGA_WIDTH + x,
              vga_entry(SPACE, vga_entry_color(VGA_COLOR_WHITE, VGA_COLOR_BLACK)),
              y, x)

\* the second half of a loop runs on the result of its first half, once that
\* result has been evaluated
Evaluated(st) == Len(st.stores) \in Nat

RECURSIVE InitLoopX(_, _, _, _)
InitRestX(first, y, mid, hi) ==
    IF Evaluated(first) THEN InitLoopX(first, y, mid, hi) ELSE first

\* iterations x = lo .. hi-1, in order, of
\* for (size_t x = 0; x < VGA_WIDTH; x++) { ... }
InitLoopX(st, y, lo, hi) ==
    IF lo >= hi THEN st
    ELSE IF hi = lo + 1 THEN InitCell(st, y, lo)
    ELSE InitRestX(InitLoopX(st, y, lo, (lo + hi) \div 2), y, (lo + hi) \div 2, hi)

RECURSIVE InitLoopY(_, _, _)
InitRestY(first, mid, hi) ==
    IF Evaluated(first) THEN InitLoopY(first, mid, hi) ELSE first

\* iterations y = lo .. hi-1, in order, of
\* for (size_t y = 0; y < VGA_HEIGHT; y++) { ... }
InitLoopY(st, lo, hi) ==
    IF lo >= hi THEN st
    ELSE IF hi = lo + 1 THEN InitLoopX(st, lo, 0, VGA_WIDTH)
    ELSE InitRestY(InitLoopY(st, lo, (lo + hi) \div 2), (lo + hi) \div 2, hi)

\* the loop nest of initTerminal: it reads no state, so it is the same every call
InitRun == InitLoopY([cells |-> <<>>, stores |-> <<>>], 0, VGA_HEIGHT)

\* the loop nest with its outer loop stopped one row early
InitRun_short == InitLoopY([cells |-> <<>>, stores |-> <<>>], 0, VGA_HEIGHT - 1)

\* a variant that also homes the cursor
initTerminal_home(st) ==
    [st EXCEPT !.row = 0, !.col = 0,
               !.cells = InitRun.cells @@ @,
               !.stores = @ \o InitRun.stores]

\* a variant that leaves the last row as it was
initTerminal_short(st) ==
    [st EXCEPT !.cells = InitRun_short.cells @@ @,
               !.stores = @ \o InitRun_short.stores]

\* void initTerminal(): the cursor is not assigned
initTerminal(st) ==
    [st EXCEPT !.cells = InitRun.cells @@ @, !.stores = @ \o InitRun.stores]

\* a variant that stores at row + col*VGA_WIDTH
PutChar_transposed(st, ch, c) ==
    [StoreCell(st, st.row + st.col * VGA_WIDTH, vga_entry(ch, c), st.row, st.col)
        EXCEPT !.col = @ + 1]

\* a variant that wraps to the next row at the end of a line
PutChar_wrap(st, ch, c) ==
    [StoreCell(st, st.col + st.row * VGA_WIDTH, vga_entry(ch, c), st.row, st.col)
        EXCEPT !.col = IF @ + 1 = VGA_WIDTH THEN 0 ELSE @ + 1,
               !.row = IF st.col + 1 = VGA_WIDTH THEN @ + 1 ELSE @]

\* terminal_buffer[terminal_col+terminal_row*VGA_WIDTH] = vga_entry(str[i], color);
\* terminal_col++;
PutChar(st, ch, c) ==
    [StoreCell(st, st.col + st.row * VGA_WIDTH, vga_entry(ch, c), st.row, st.col)
        EXCEPT !.col = @ + 1]

\* a variant that keeps the column on a newline
PutNewline_keepCol(st) == [st EXCEPT !.row = @ + 1]

\* terminal_row++; terminal_col = 0; continue;
PutNewline(st) == [st EXCEPT !.row = @ + 1, !.col = 0]

\* the body of the loop of terminalPut for the character ch = str[i]
PutIter(st, ch, c) == IF ch = NEWLINE THEN PutNewline(st) ELSE PutChar(st, ch, c)

RECURSIVE PutLoop(_, _, _, _, _)
PutRest(first, str, mid, hi, c) ==
    IF Evaluated(first) THEN PutLoop(first, str, mid, hi, c) ELSE first

\* iterations i = lo .. hi-1, in order, of
\* for (size_t i = 0; i < len; i++) { ... }
PutLoop(st, str, lo, hi, c) ==
    IF lo >= hi THEN st
    ELSE IF hi = lo + 1 THEN PutIter(st, str[lo], c)
    ELSE PutRest(PutLoop(st, str, lo, (lo + hi) \div 2, c), str, (lo + hi) \div 2, hi, c)

\* void terminalPut(char* str, uint8_t color)
terminalPut(st, str, c) ==
    PutLoop([st EXCEPT !.str = str, !.color = c], str, 0, strlen(str), c)

\* void write(char* str)
write(st, str) ==
    terminalPut(st, str, vga_entry_color(VGA_COLOR_WHITE, VGA_COLOR_BLACK))

\* a variant with the colours exchanged: red background
kerr_swapped(st, err) ==
    terminalPut(st, err, vga_entry_color(VGA_COLOR_BLACK, VGA_COLOR_RED))

\* void kerr(char* err)
kerr(st, err) ==
    terminalPut(st, err, vga_entry_color(VGA_COLOR_RED, VGA_COLOR_BLACK))

\* void kwarn(char* warn)
kwarn(st, warn) ==
    terminalPut(st, warn, vga_entry_color(VGA_COLOR_YELLOW, VGA_COLOR_BLACK))

\* void write_hex(uint32_t hex): str is the local array as it is before the call
write_hex(st, hex, str) == write(st, decToHexStr(hex, str))

-----------------------------------------------------------------------------
(* Inputs *)

\* the C string of a sequence of characters
CStr(chars) ==
    [i \in 0..Len(chars) |-> IF i < Len(chars) THEN chars[i + 1] ELSE NUL]

\* "A\nB"
StrAB == CStr(<<65, NEWLINE, 66>>)
\* a full line of 'A'
StrLine == CStr([k \in 1..VGA_WIDTH |-> 65])
\* a newline for every row but the last, then 'B'
StrDown == CStr([k \in 1..VGA_HEIGHT |-> IF k < VGA_HEIGHT THEN NEWLINE ELSE 66])

Strings == {StrAB, StrLine, StrDown}

\* values given to write_hex by the console's callers
HexValues == {U32(4660, 22136)}

\* every 32-bit value whose eight hex digits are all among these
HexDigitSamples == {0, 9, 10}
HexHalves ==
    {((a * 16 + b) * 16 + c) * 16 + d :
        a \in HexDigitSamples, b \in HexDigitSamples,
        c \in HexDigitSamples, d \in HexDigitSamples}
HexInputs ==
    {U32(h, l) : h \in HexHalves, l \in HexHalves}
        \cup HexValues
        \cup {U32(0, 255), U32(255, 65535), U32(256, 0), U32(32768, 0),
              U32(65535, 65535)}

\* what the local array of write_hex may hold before decToHexStr fills it
Uninitialized == {[i \in 0..10 |-> g] : g \in {NUL, 90}}

\* what the memory at 0xB8000 may hold before initTerminal
PriorMemory == {Filled(p) : p \in {0, 65535}}

-----------------------------------------------------------------------------
(* History *)

\* the characters of a C string before its terminator
TextEnd(str) ==
    CHOOSE n \in DOMAIN str : str[n] = NUL /\ \A m \in 0..(n - 1) : str[m] # NUL
Prefix(str, n) == [k \in 1..n |-> str[k - 1]]
Text(str) == Prefix(str, TextEnd(str))

NewlinesAt(text) == {k \in DOMAIN text : text[k] = NEWLINE}
LastNewline(text) ==
    CHOOSE k \in NewlinesAt(text) : \A j \in NewlinesAt(text) : j <= k

-----------------------------------------------------------------------------
(* Actions *)

\* a call returns: the globals take the values the call left
Return(op, r) ==
    /\ nOps < MaxOps
    /\ {idx \in DOMAIN r.cells : idx >= MemCells} = {}
    /\ terminal_buffer' = Memory(terminal_buffer, r.cells)
    /\ terminal_row' = r.row
    /\ terminal_col' = r.col
    /\ stores' = r.stores
    /\ lastStr' = r.str
    /\ color' = r.color
    /\ lastOp' = op
    /\ nOps' = nOps + 1
    /\ UNCHANGED <<fg, bg, entryColor>>

\* the history of the characters given to terminalPut
WroteText(text, nl) ==
    /\ newlines' = newlines + Cardinality(nl)
    /\ tail' = IF nl = {} THEN tail + Len(text) ELSE Len(text) - LastNewline(text)

Wrote(str) == WroteText(Text(str), NewlinesAt(Text(str)))

InitTerminal ==
    /\ Return("initTerminal", initTerminal(Console))
    /\ UNCHANGED <<hexNum, hexStr, newlines, tail>>

Write(str) ==
    /\ Return("write", write(Console, str))
    /\ Wrote(str)
    /\ UNCHANGED <<hexNum, hexStr>>

Kerr(err) ==
    /\ Return("kerr", kerr(Console, err))
    /\ Wrote(err)
    /\ UNCHANGED <<hexNum, hexStr>>

Kwarn(warn) ==
    /\ Return("kwarn", kwarn(Console, warn))
    /\ Wrote(warn)
    /\ UNCHANGED <<hexNum, hexStr>>

\* write_hex returns: r is what write left, r.str the local array it was given
WriteHexReturn(hex, r) ==
    /\ Return("write_hex", r)
    /\ Wrote(r.str)
    /\ hexNum' = hex
    /\ hexStr' = r.str

WriteHex(hex, str) == WriteHexReturn(hex, write_hex(Console, hex, str))

\* vga_entry_color called on the pending arguments
VgaEntryColor ==
    /\ lastOp = "boot"
    /\ entryColor' = vga_entry_color(fg, bg)
    /\ lastOp' = "vga_entry_color"
    /\ UNCHANGED <<terminal_buffer, terminal_row, terminal_col, lastStr, color,
                   stores, hexNum, hexStr, fg, bg, newlines, tail, nOps>>

-----------------------------------------------------------------------------
(* Specifications *)

\* the state at boot, before kernelMain
Boot ==
    /\ terminal_row = 0
    /\ terminal_col = 0
    /\ lastOp = "boot"
    /\ lastStr = CStr(<<>>)
    /\ color = 0
    /\ stores = <<>>
    /\ entryColor = 0
    /\ newlines = 0
    /\ tail = 0
    /\ nOps = 0

\* the console, driven by any sequence of calls
Init ==
    /\ Boot
    /\ terminal_buffer \in PriorMemory
    /\ hexNum = U32(0, 0)
    /\ hexStr = CStr(<<>>)
    /\ fg = 0
    /\ bg = 0

Next ==
    \/ InitTerminal
    \/ \E str \in Strings : Write(str)
    \/ \E err \in Strings : Kerr(err)
    \/ \E warn \in Strings : Kwarn(warn)
    \/ \E hex \in HexValues, str \in Uninitialized : WriteHex(hex, str)

Spec == Init /\ [][Next]_vars

\* write_hex called once, on any of HexInputs
InitHex ==
    /\ Boot
    /\ terminal_buffer = Filled(0)
    /\ hexNum \in HexInputs
    /\ hexStr \in Uninitialized
    /\ fg = 0
    /\ bg = 0

NextHex == lastOp = "boot" /\ WriteHex(hexNum, hexStr)

SpecHex == InitHex /\ [][NextHex]_vars

\* vga_entry_color called once, on any two 4-bit colours
InitColor ==
    /\ Boot
    /\ terminal_buffer = Filled(0)
    /\ hexNum = U32(0, 0)
    /\ hexStr = CStr(<<>>)
    /\ fg \in 0..15
    /\ bg \in 0..15

NextColor == VgaEntryColor

SpecColor == InitColor /\ [][NextColor]_vars

-----------------------------------------------------------------------------
(* Vocabulary of the properties *)

\* the character and the attribute of a cell value
CharOf(value) == value % 256
AttrOf(value) == value \div 256

\* the cell initTerminal writes: a space, white on black
Blank == SPACE + 256 * 15

Grid == 0..(GridCells - 1)
PutOps == {"write", "kerr", "kwarn", "write_hex"}
StoreIndices(ss) == {ss[k].index : k \in DOMAIN ss}
Largest(S) == CHOOSE k \in S : \A j \in S : j <= k

\* the value of the hex digit character ch, -1 if it is not an uppercase hex digit
HexVal(ch) ==
    IF ch \in 48..57 THEN ch - 48 ELSE IF ch \in 65..70 THEN ch - 55 ELSE -1

\* the number the six characters after "0x" spell
Decode(str) ==
    ((((HexVal(str[2]) * 16 + HexVal(str[3])) * 16 + HexVal(str[4])) * 16
        + HexVal(str[5])) * 16 + HexVal(str[6])) * 16 + HexVal(str[7])

------------------------------------------------------------------------\* whether memory new differs from memory old at most in the cells of touched
SameExcept(old, new, touched, lines) ==
    \A line \in DOMAIN old :
        IF line \in lines
        THEN \A off \in DOMAIN old[line] :
                 line * VGA_WIDTH + off \in touched \/ new[line][off] = old[line][off]
        ELSE new[line] = old[line]
Unchanged(old, new, touched) ==
    \A lines \in {{idx \div VGA_WIDTH : idx \in touched}} :
        SameExcept(old, new, touched, lines)

-----------------------------------------------------------------------------
(* C1 *)

\* the positions of the characters of text that are no newline, in order
Printed(text) ==
    SelectSeq([k \in 1..Len(text) |-> k], LAMBDA k : text[k] # NEWLINE)

\* what C1 says of one call of terminalPut on text, whose newlines are at the
\* positions nl and whose other characters are at the positions chars, from the
\* cursor and memory before the call (unprimed) to the cursor, the memory and
\* the stores ss after it
C1_Call(text, nl, chars, ss) ==
    LET Before(k) == {j \in nl : j < k}
        RowAt(k) == terminal_row + Cardinality(Before(k))
        ColAt(k) == IF Before(k) = {} THEN terminal_col + (k - 1)
                    ELSE k - 1 - Largest(Before(k))
    IN  /\ Len(ss) = Len(chars)
        /\ \A j \in DOMAIN chars :
              /\ ss[j].row = RowAt(chars[j])
              /\ ss[j].col = ColAt(chars[j])
              /\ ss[j].index = ColAt(chars[j]) + RowAt(chars[j]) * 80
              /\ CharOf(ss[j].value) = text[chars[j]]
              /\ AttrOf(ss[j].value) = color'
        /\ \A j \in DOMAIN ss :
              \/ Cell(terminal_buffer', ss[j].index) = ss[j].value
              \/ \E j2 \in (j + 1)..Len(ss) : ss[j2].index = ss[j].index
        /\ \A touched \in {StoreIndices(ss)} :
              Unchanged(terminal_buffer, terminal_buffer', touched)
        /\ terminal_row' = terminal_row + Cardinality(nl)
        /\ terminal_col' = IF nl = {} THEN terminal_col + Len(text)
                           ELSE Len(text) - Largest(nl)

\* write("A\nB") from cursor (0,0)
C1_Example ==
    (terminal_row = 0 /\ terminal_col = 0 /\ lastOp' = "write" /\ lastStr' = StrAB)
        => /\ Cell(terminal_buffer', 0) = 65 + 256 * 15
           /\ Cell(terminal_buffer', 80) = 66 + 256 * 15
           /\ terminal_row' = 1
           /\ terminal_col' = 1

\* C1: every call of terminalPut handles the characters in order: a newline
\* moves the cursor to (row+1, 0) and stores nothing, any other character is
\* stored at col + row*80 as (character, attribute) and col grows by one, no
\* other cell changes; so the final row is the old row plus the newlines, the
\* final column counts the characters after the last newline (the old column
\* plus the length without one), and write("A\nB") from (0,0) puts 'A' at
\* (0,0), 'B' at (1,0) and ends at (1,1).
C1_TerminalPut ==
    [][(lastOp' \in PutOps)
          => /\ \A text \in {Text(lastStr')} :
                   \A nl \in {NewlinesAt(text)} :
                      \A chars \in {Printed(text)} :
                         \A ss \in {stores'} : C1_Call(text, nl, chars, ss)
             /\ C1_Example]_vars

C1_Witness ==
    /\ lastOp = "write"
    /\ lastStr = StrAB
    /\ nOps = 1
    /\ terminal_row = 1
    /\ terminal_col = 1
    /\ Cell(terminal_buffer, 0) = 65 + 256 * 15
    /\ Cell(terminal_buffer, 80) = 66 + 256 * 15

-----------------------------------------------------------------------------
(* C2 *)

\* "0x000000" and "0x0000FF"
Str000000 == <<48, 120, 48, 48, 48, 48, 48, 48>>
Str0000FF == <<48, 120, 48, 48, 48, 48, 70, 70>>

\* C2: for every v < 0x01000000, decToHexStr(v) is "0x" followed by exactly six
\* uppercase hex digits whose value is v; encode(0) = "0x000000" and
\* encode(0xFF) = "0x0000FF".
C2_RoundTrip ==
    (lastOp = "write_hex" /\ hexNum.hi < 256)
        => /\ hexStr[0] = 48
           /\ hexStr[1] = 120
           /\ \A i \in 2..7 : HexVal(hexStr[i]) \in 0..15
           /\ hexStr[8] = NUL
           /\ Decode(hexStr) = hexNum.hi * 65536 + hexNum.lo
           /\ (hexNum = U32(0, 0) => Text(hexStr) = Str000000)
           /\ (hexNum = U32(0, 255) => Text(hexStr) = Str0000FF)

C2_Witness ==
    /\ lastOp = "write_hex"
    /\ hexNum = U32(0, 255)
    /\ Text(hexStr) = Str0000FF

-----------------------------------------------------------------------------
(* C3 *)

\* "0x345678"
Str345678 == <<48, 120, 51, 52, 53, 54, 55, 56>>

\* C3: for every 32-bit v >= 0x01000000, decToHexStr(v) drops the two most
\* significant hex digits: it is the string of v mod 2^24, "0x" and the six
\* low-order digits, a number strictly smaller than v;
\* encode(0x12345678) = "0x345678".
C3_HighDigitsLost ==
    (lastOp = "write_hex" /\ hexNum.hi >= 256)
        => /\ Text(hexStr)
                = Text(decToHexStr(U32(hexNum.hi % 256, hexNum.lo), hexStr))
           /\ Len(Text(hexStr)) = 8
           /\ Decode(hexStr) = (hexNum.hi % 256) * 65536 + hexNum.lo
           /\ Decode(hexStr) \div 65536 < hexNum.hi
           /\ (hexNum = U32(4660, 22136) => Text(hexStr) = Str345678)

C3_Witness ==
    /\ lastOp = "write_hex"
    /\ hexNum = U32(4660, 22136)
    /\ Text(hexStr) = Str345678

-----------------------------------------------------------------------------
(* C4 *)

\* C4: after initTerminal, from any memory and any cursor, each of the cells
\* 0..1999 is (space, 0x0F), and no cell outside 0..1999 is written.
C4_InitTerminal ==
    [][(lastOp' = "initTerminal")
          => /\ \A idx \in 0..1999 : Cell(terminal_buffer', idx) = Blank
             /\ \A idx \in 2000..(MemCells - 1) :
                   Cell(terminal_buffer', idx) = Cell(terminal_buffer, idx)
             /\ \A j \in DOMAIN stores' : stores'[j].index \in 0..1999]_vars

\* initTerminal has run on a screen that was written to, past its end too
C4_Witness ==
    /\ lastOp = "initTerminal"
    /\ terminal_row = 24
    /\ \A idx \in 0..1999 : Cell(terminal_buffer, idx) = Blank
    /\ CharOf(Cell(terminal_buffer, 2000)) = 65

-----------------------------------------------------------------------------
(* C5 *)

\* the results w, e, y of write, kerr and kwarn agree but for the attribute
C5_Same(w, e, y) ==
    /\ w.row = e.row /\ w.row = y.row
    /\ w.col = e.col /\ w.col = y.col
    /\ Len(w.stores) = Len(e.stores) /\ Len(w.stores) = Len(y.stores)
    /\ \A j \in DOMAIN w.stores :
          /\ w.stores[j].index = e.stores[j].index
          /\ w.stores[j].index = y.stores[j].index
          /\ CharOf(w.stores[j].value) = CharOf(e.stores[j].value)
          /\ CharOf(w.stores[j].value) = CharOf(y.stores[j].value)
          /\ AttrOf(w.stores[j].value) = 15
          /\ AttrOf(e.stores[j].value) = 4
          /\ AttrOf(y.stores[j].value) = 14

\* the call that ran has left what r says
C5_Ran(r) ==
    /\ terminal_row' = r.row
    /\ terminal_col' = r.col
    /\ stores' = r.stores
    /\ terminal_buffer' = Memory(terminal_buffer, r.cells)

\* C5: on the same text from the same state, write, kerr and kwarn store the
\* same characters at the same indices and leave the same cursor; every cell
\* written carries 0x0F by write, 0x04 by kerr and 0x0E by kwarn.
C5_SameButColor ==
    [][(lastOp' \in {"write", "kerr", "kwarn"})
          => \A w \in {write(Console, lastStr')} :
                \A e \in {kerr(Console, lastStr')} :
                   \A y \in {kwarn(Console, lastStr')} :
                      /\ C5_Same(w, e, y)
                      /\ (lastOp' = "write") => C5_Ran(w)
                      /\ (lastOp' = "kerr") => C5_Ran(e)
                      /\ (lastOp' = "kwarn") => C5_Ran(y)]_vars

C5_Witness ==
    /\ lastOp = "kwarn"
    /\ lastStr = StrAB
    /\ Len(stores) = 2
    /\ AttrOf(stores[1].value) = 14
    /\ AttrOf(Cell(terminal_buffer, stores[1].index)) = 14

-----------------------------------------------------------------------------
(* C6 *)

\* C6 as stated: a character written while row >= 25 or column >= 80 lands
\* outside the 2000 cells of the grid.
C6_OutsideGrid ==
    (lastOp \in PutOps)
        => \A j \in DOMAIN stores :
              (stores[j].row >= 25 \/ stores[j].col >= 80)
                  => stores[j].index \notin 0..1999

\* C6, amended: a character written while row >= 25 lands outside the grid, at
\* an index >= 2000; one written while column >= 80 and row < 25 lands in the
\* grid cell (row + col / 80, col % 80) when row + col / 80 < 25, and outside
\* the grid otherwise.
C6_LinearIndex ==
    (lastOp \in PutOps)
        => \A j \in DOMAIN stores :
              \A s \in {stores[j]} :
                 /\ (s.row >= 25) => (s.index >= 2000)
                 /\ (s.col >= 80 /\ s.row < 25)
                       => IF s.row + (s.col \div 80) < 25
                          THEN /\ s.index = (s.row + (s.col \div 80)) * 80 + (s.col % 80)
                               /\ s.index \in 0..1999
                          ELSE s.index >= 2000

\* a character written at column 80 of row 0 is now in a cell of the grid
C6_Witness ==
    /\ lastOp \in PutOps
    /\ \E j \in DOMAIN stores :
          /\ stores[j].col >= 80
          /\ stores[j].row < 25
          /\ stores[j].index \in 0..1999
          /\ Cell(terminal_buffer, stores[j].index) = stores[j].value

-----------------------------------------------------------------------------
(* C7 *)

\* C7: after any sequence of writes from boot with k newlines in total and n
\* characters after the last newline the cursor is (k, n), with no clamping or
\* wrapping, and a character written once row >= 25 is stored at an index
\* >= 2000.
C7_Unbounded ==
    /\ terminal_row = newlines
    /\ terminal_col = tail
    /\ (lastOp \in PutOps)
          => \A j \in DOMAIN stores :
                (stores[j].row >= 25) => (stores[j].index >= 2000)

\* the cursor is past both bounds, and a character was written there
C7_Witness ==
    /\ terminal_row >= 25
    /\ terminal_col >= 80
    /\ terminal_row = newlines
    /\ terminal_col = tail
    /\ lastOp \in PutOps
    /\ \E j \in DOMAIN stores : stores[j].row >= 25 /\ stores[j].index >= 2000

-----------------------------------------------------------------------------
(* C8 *)

\* C8: for fg, bg in 0..15, vga_entry_color(fg, bg) = fg + 16*bg, fits in a
\* byte, with fg in the low nibble and bg in the high nibble;
\* pack(Red,Black) = 0x04, pack(White,Black) = 0x0F, pack(Yellow,Black) = 0x0E.
C8_Pack ==
    (lastOp = "vga_entry_color")
        => /\ entryColor = fg + 16 * bg
           /\ entryColor \in 0..255
           /\ entryColor % 16 = fg
           /\ entryColor \div 16 = bg
           /\ (fg = 4 /\ bg = 0) => (entryColor = 4)
           /\ (fg = 15 /\ bg = 0) => (entryColor = 15)
           /\ (fg = 14 /\ bg = 0) => (entryColor = 14)

C8_Witness ==
    /\ lastOp = "vga_entry_color"
    /\ fg = 14
    /\ bg = 1
    /\ entryColor = 30

-----------------------------------------------------------------------------
(* C9 *)

\* C9 as stated: the terminator is at position 8 and nine characters come
\* before it, so write_hex writes nine cells and moves the column by nine.
C9_NineCharacters ==
    (lastOp = "write_hex")
        => /\ hexStr[8] = NUL
           /\ Len(Text(hexStr)) = 9
           /\ Len(stores) = 9
           /\ terminal_col = 9

\* C9, amended: the terminator is at position 8 and eight characters come
\* before it ("0x" and six digits), so write_hex writes eight cells and moves
\* the column by eight.
C9_EightCharacters ==
    (lastOp = "write_hex")
        => /\ hexStr[8] = NUL
           /\ Len(Text(hexStr)) = 8
           /\ \A i \in 0..7 : hexStr[i] # NUL
           /\ Len(stores) = 8
           /\ \A j \in 1..8 : CharOf(stores[j].value) = hexStr[j - 1]
           /\ terminal_row = 0
           /\ terminal_col = 8

C9_Witness ==
    /\ lastOp = "write_hex"
    /\ hexNum = U32(65535, 65535)
    /\ Len(stores) = 8
    /\ terminal_col = 8

-----------------------------------------------------------------------------
(* C10 *)

\* C10: initTerminal leaves the cursor as it was and only rewrites cells, so
\* the write after it starts at the cursor the writes before it left (newlines
\* and tail are that cursor: initTerminal does not count as a write).
C10_CursorKept ==
    [][/\ (lastOp' = "initTerminal")
             => (terminal_row' = terminal_row /\ terminal_col' = terminal_col)
       /\ (lastOp = "initTerminal" /\ lastOp' \in PutOps /\ lastStr'[0] \notin {NUL, NEWLINE})
             => /\ stores'[1].row = newlines
                /\ stores'[1].col = tail
                /\ stores'[1].index = tail + newlines * 80]_vars

\* a write after initTerminal started away from (0,0) on the cleared screen
C10_Witness ==
    /\ lastOp = "write"
    /\ lastStr = StrAB
    /\ stores[1].index = 81
    /\ Cell(terminal_buffer, 0) = Blank
    /\ Cell(terminal_buffer, 80) = Blank

====
